---- MODULE Spec2Model ----
(***************************************************************************)
(* sysctl.conf-style parser (src/src/lib.rs) and schema validator          *)
(* (src/src/schema.rs).                                                    *)
(*                                                                         *)
(* Text is a sequence of one-character strings.  A config or schema text   *)
(* is the sequence of physical lines that `input.lines()` yields.  A       *)
(* HashMap is a function whose domain is its key set; where the code       *)
(* iterates a HashMap the iteration order is a nondeterministic choice.    *)
(* A Result is a record whose tag names the variant.                       *)
(***************************************************************************)
EXTENDS Integers, Sequences, FiniteSets, TLC

VARIABLES input, parsed, schema_input, schema, verdict, raw, ty, checked

vars == <<input, parsed, schema_input, schema, verdict, raw, ty, checked>>

(***************************************************************************)
(* Bounds of the model.                                                    *)
(***************************************************************************)
MaxLines == 3

(***************************************************************************)
(* str helpers of the standard library, as the code uses them.             *)
(***************************************************************************)
is_whitespace(c) == c \in {" ", "\t"}

RECURSIVE trim_start(_)
trim_start(s) ==
    IF s = <<>> THEN s
    ELSE IF is_whitespace(Head(s)) THEN trim_start(Tail(s)) ELSE s

RECURSIVE trim_end(_)
trim_end(s) ==
    IF s = <<>> THEN s
    ELSE IF is_whitespace(s[Len(s)]) THEN trim_end(SubSeq(s, 1, Len(s) - 1)) ELSE s

trim(s) == trim_end(trim_start(s))

is_empty(s) == Len(s) = 0

starts_with(s, c) == Len(s) > 0 /\ s[1] = c

\* line.strip_prefix(c).unwrap_or(line)
strip_prefix_or(s, c) == IF starts_with(s, c) THEN Tail(s) ELSE s

\* position of the first occurrence of c in s, 0 when there is none
find(s, c) ==
    IF \E i \in 1..Len(s) : s[i] = c
    THEN CHOOSE i \in 1..Len(s) : s[i] = c /\ \A j \in 1..(i - 1) : s[j] # c
    ELSE 0

\* s.split_once(c): None, or Some((before, after))
split_once(s, c) ==
    LET i == find(s, c) IN
    IF i = 0 THEN [some |-> FALSE]
    ELSE [some |-> TRUE,
          fst |-> SubSeq(s, 1, i - 1),
          snd |-> SubSeq(s, i + 1, Len(s))]

\* s.split(c).collect(): always at least one part
RECURSIVE split(_, _)
split(s, c) ==
    LET i == find(s, c) IN
    IF i = 0 THEN <<s>>
    ELSE <<SubSeq(s, 1, i - 1)>> \o split(SubSeq(s, i + 1, Len(s)), c)

\* key.split('.').map(str::trim).collect()
map_trim(parts) == [i \in 1..Len(parts) |-> trim(parts[i])]

Upper == <<"A", "B", "C", "D", "E", "F", "G", "H", "I", "J", "K", "L", "M",
           "N", "O", "P", "Q", "R", "S", "T", "U", "V", "W", "X", "Y", "Z">>
Lower == <<"a", "b", "c", "d", "e", "f", "g", "h", "i", "j", "k", "l", "m",
           "n", "o", "p", "q", "r", "s", "t", "u", "v", "w", "x", "y", "z">>

to_lowercase_char(c) ==
    IF \E i \in 1..26 : Upper[i] = c
    THEN Lower[CHOOSE i \in 1..26 : Upper[i] = c]
    ELSE c

to_lowercase(s) == [i \in 1..Len(s) |-> to_lowercase_char(s[i])]

(***************************************************************************)
(* enum Value { String(String), Map(HashMap<String, Value>) }              *)
(***************************************************************************)
ValueString(s) == [tag |-> "String", s |-> s]
ValueMap(m) == [tag |-> "Map", m |-> m]

HashMapNew == [k \in {} |-> {}]

\* HashMap::insert: the entry at k is created or overwritten
insert_if_absent(m, k, v) == [x \in (DOMAIN m) \cup {k} |-> IF x \in DOMAIN m THEN m[x] ELSE v]
insert(m, k, v) == [x \in (DOMAIN m) \cup {k} |-> IF x = k THEN v ELSE m[x]]

\* map.entry(first).or_insert_with(|| Value::Map(HashMap::new()))
or_insert_map(m, k) ==
    IF k \in DOMAIN m THEN m
    ELSE [x \in (DOMAIN m) \cup {k} |-> IF x = k THEN ValueMap(HashMapNew) ELSE m[x]]

\* the write through `entry`, the &mut reference into the map's slot at k
assign_entry(m, k, v) == [m EXCEPT ![k] = v]

\* variant: a leaf found on the way is kept and the assignment is dropped
RECURSIVE set_nested_rest_keep_leaf(_, _, _)
set_nested_rest_keep_leaf(map, parts, value) ==
    IF Len(parts) = 1 THEN insert(map, parts[1], value)
    ELSE
        LET first == parts[1]
            rest == Tail(parts)
            m1 == or_insert_map(map, first)
            entry == m1[first]
        IN  IF entry.tag # "Map"
            THEN m1
            ELSE assign_entry(m1, first,
                              ValueMap(set_nested_rest_keep_leaf(entry.m, rest, value)))

RECURSIVE set_nested_rest(_, _, _)
set_nested_rest(map, parts, value) ==
    IF Len(parts) = 1 THEN insert(map, parts[1], value)
    ELSE
        LET first == parts[1]
            rest == Tail(parts)
            m1 == or_insert_map(map, first)
            entry == m1[first]
        IN  IF entry.tag # "Map"
            THEN assign_entry(m1, first, ValueMap(set_nested_rest(HashMapNew, rest, value)))
            ELSE assign_entry(m1, first, ValueMap(set_nested_rest(entry.m, rest, value)))

\* variant: a single-segment key does not overwrite a nested map
set_nested_keep_node(root, key, value) ==
    LET parts == map_trim(split(key, ".")) IN
    IF Len(parts) = 1
    THEN IF parts[1] \in DOMAIN root /\ root[parts[1]].tag = "Map"
         THEN root
         ELSE insert(root, parts[1], value)
    ELSE set_nested_rest(root, parts, value)

set_nested(root, key, value) ==
    LET parts == map_trim(split(key, ".")) IN
    IF Len(parts) = 0 THEN root
    ELSE IF Len(parts) = 1 THEN insert(root, parts[1], value)
    ELSE
        LET first == parts[1]
            rest == Tail(parts)
            m1 == or_insert_map(root, first)
            entry == m1[first]
        IN  IF entry.tag # "Map"
            THEN assign_entry(m1, first, ValueMap(set_nested_rest(HashMapNew, rest, value)))
            ELSE assign_entry(m1, first, ValueMap(set_nested_rest(entry.m, rest, value)))

(***************************************************************************)
(* parse_str                                                               *)
(***************************************************************************)
Ok(v) == [tag |-> "Ok", root |-> v]
ParseError(n, msg) == [tag |-> "Err", line |-> n, message |-> msg]

\* line.starts_with('#') || line.starts_with(';')
is_comment_hash_only(line) == starts_with(line, "#")
is_comment(line) == starts_with(line, "#") \/ starts_with(line, ";")

\* line.strip_prefix('-').unwrap_or(line).trim()
RECURSIVE strip_every_dash(_)
strip_every_dash(line) ==
    IF starts_with(trim(line), "-") THEN strip_every_dash(Tail(trim(line))) ELSE trim(line)
strip_ignore_failure(line) == trim(strip_prefix_or(line, "-"))

\* One iteration of the loop body on the line at 0-based index line_num:
\* the tree carried on, or the error returned.
parse_line(root, line_num, text) ==
    LET line == trim(text) IN
    IF is_empty(line) THEN Ok(root)
    ELSE IF is_comment(line) THEN Ok(root)
    ELSE
        LET line2 == strip_ignore_failure(line) IN
        IF is_empty(line2) THEN Ok(root)
        ELSE
            LET kv == split_once(line2, "=") IN
            IF ~kv.some THEN ParseError(line_num + 1, "missing '='")
            ELSE
                LET key == trim(kv.fst)
                    value == trim(kv.snd)
                IN  IF is_empty(key) THEN ParseError(line_num + 1, "empty key")
                    ELSE Ok(set_nested(root, key, ValueString(value)))

\* variant: the loop goes on after a malformed line and returns the last error
RECURSIVE parse_lines_keep_going(_, _, _)
parse_lines_keep_going(lines, line_num, root) ==
    IF line_num >= Len(lines) THEN Ok(root)
    ELSE
        LET r == parse_line(root, line_num, lines[line_num + 1]) IN
        IF r.tag = "Err"
        THEN LET later == parse_lines_keep_going(lines, line_num + 1, root) IN
             IF later.tag = "Err" THEN later ELSE r
        ELSE parse_lines_keep_going(lines, line_num + 1, r.root)

RECURSIVE parse_lines(_, _, _)
parse_lines(lines, line_num, root) ==
    IF line_num >= Len(lines) THEN Ok(root)
    ELSE
        LET r == parse_line(root, line_num, lines[line_num + 1]) IN
        IF r.tag = "Err" THEN r ELSE parse_lines(lines, line_num + 1, r.root)

parse_str(text) == parse_lines(text, 0, HashMapNew)

(***************************************************************************)
(* SchemaType and its parsers of text                                      *)
(***************************************************************************)
SchemaTypes == { "String", "Bool", "Integer", "Float" }

S_string == <<"s", "t", "r", "i", "n", "g">>
S_bool == <<"b", "o", "o", "l">>
S_boolean == <<"b", "o", "o", "l", "e", "a", "n">>
S_integer == <<"i", "n", "t", "e", "g", "e", "r">>
S_int == <<"i", "n", "t">>
S_float == <<"f", "l", "o", "a", "t">>
S_number == <<"n", "u", "m", "b", "e", "r">>

\* SchemaType::from_name: Some(type) or None
from_name(name) ==
    LET n == to_lowercase(trim(name)) IN
    CASE n = S_string -> [some |-> TRUE, v |-> "String"]
      [] n \in { S_bool, S_boolean } -> [some |-> TRUE, v |-> "Bool"]
      [] n \in { S_integer, S_int } -> [some |-> TRUE, v |-> "Integer"]
      [] n \in { S_float, S_number } -> [some |-> TRUE, v |-> "Float"]
      [] OTHER -> [some |-> FALSE]

Digits == <<"0", "1", "2", "3", "4", "5", "6", "7", "8", "9">>
is_digit(c) == \E i \in 1..10 : Digits[i] = c
digit_value(c) == (CHOOSE i \in 1..10 : Digits[i] = c) - 1
all_digits(s) == \A i \in 1..Len(s) : is_digit(s[i])

\* the decimal digits of i64::MAX and of the magnitude of i64::MIN
I64_MAX == <<"9", "2", "2", "3", "3", "7", "2", "0", "3", "6", "8", "5", "4", "7", "7", "5", "8", "0", "7">>
I64_MIN_MAGNITUDE == <<"9", "2", "2", "3", "3", "7", "2", "0", "3", "6", "8", "5", "4", "7", "7", "5", "8", "0", "8">>

RECURSIVE strip_zeros(_)
strip_zeros(d) == IF Len(d) > 1 /\ d[1] = "0" THEN strip_zeros(Tail(d)) ELSE d

\* a <= b for digit strings of the same length
RECURSIVE dec_le(_, _)
dec_le(a, b) ==
    IF a = <<>> THEN TRUE
    ELSE IF digit_value(a[1]) < digit_value(b[1]) THEN TRUE
    ELSE IF digit_value(a[1]) > digit_value(b[1]) THEN FALSE
    ELSE dec_le(Tail(a), Tail(b))

\* the checked multiply-and-add of the digits does not overflow i64
fits_i64(negative, digits) ==
    LET d == strip_zeros(digits)
        limit == IF negative THEN I64_MIN_MAGNITUDE ELSE I64_MAX
    IN  Len(d) < Len(limit) \/ (Len(d) = Len(limit) /\ dec_le(d, limit))

\* str::parse::<i64>().is_ok()
parse_i64_unchecked(src) ==
    IF src = <<>> THEN FALSE
    ELSE
        LET digits == IF src[1] \in { "+", "-" } THEN Tail(src) ELSE src IN
        digits # <<>> /\ all_digits(digits)
parse_i64(src) ==
    IF src = <<>> THEN FALSE
    ELSE
        LET negative == src[1] = "-"
            digits == IF src[1] \in { "+", "-" } THEN Tail(src) ELSE src
        IN  digits # <<>> /\ all_digits(digits) /\ fits_i64(negative, digits)

S_inf == <<"i", "n", "f">>
S_infinity == <<"i", "n", "f", "i", "n", "i", "t", "y">>
S_nan == <<"n", "a", "n">>

\* Digit+ | Digit+ '.' Digit* | Digit* '.' Digit+
is_decimal(m) ==
    LET dot == find(m, ".") IN
    IF dot = 0 THEN m # <<>> /\ all_digits(m)
    ELSE
        LET int == SubSeq(m, 1, dot - 1)
            frac == SubSeq(m, dot + 1, Len(m))
        IN  all_digits(int) /\ all_digits(frac) /\ Len(int) + Len(frac) >= 1

\* Sign? Digit+
is_exponent(x) ==
    LET d == IF x # <<>> /\ x[1] \in { "+", "-" } THEN Tail(x) ELSE x IN
    d # <<>> /\ all_digits(d)

\* str::parse::<f64>().is_ok()
parse_f64(src) ==
    LET body == to_lowercase(IF src # <<>> /\ src[1] \in { "+", "-" } THEN Tail(src) ELSE src)
        e == find(body, "e")
    IN  \/ body \in { S_inf, S_infinity, S_nan }
        \/ e = 0 /\ is_decimal(body)
        \/ /\ e > 0
           /\ is_decimal(SubSeq(body, 1, e - 1))
           /\ is_exponent(SubSeq(body, e + 1, Len(body)))

S_true == <<"t", "r", "u", "e">>
S_false == <<"f", "a", "l", "s", "e">>
S_yes == <<"y", "e", "s">>
S_no == <<"n", "o">>

\* SchemaType::check_value
check_value(t, text) ==
    CASE t = "String" -> TRUE
      [] t = "Bool" ->
            to_lowercase(trim(text)) \in { S_true, S_false, <<"1">>, <<"0">>, S_yes, S_no }
      [] t = "Integer" -> parse_i64(trim(text))
      [] t = "Float" -> parse_f64(trim(text))

\* the name validate_impl reports for a type
expected_name(t) ==
    CASE t = "String" -> "string"
      [] t = "Bool" -> "bool"
      [] t = "Integer" -> "integer"
      [] t = "Float" -> "float"

(***************************************************************************)
(* parse_schema_str, flatten_to_schema, validate.  Each returns the set    *)
(* of results the HashMap's iteration orders allow.                        *)
(***************************************************************************)
SchemaNew == [k \in {} |-> "String"]

OkSchema(out) == [tag |-> "Ok", schema |-> out]
SchemaParseErrorParse(e) == [tag |-> "Parse", error |-> e]
UnknownType(key, type_name) == [tag |-> "UnknownType", key |-> key, type_name |-> type_name]

\* if prefix.is_empty() { k.clone() } else { format!("{}.{}", prefix, k) }
join_path(prefix, k) == IF is_empty(prefix) THEN k ELSE prefix \o <<".">> \o k

\* The loop `for (k, v) in map` with the entries in `todo` still to visit:
\* the next entry is any of them.
RECURSIVE flatten_to_schema_impl(_, _, _, _)
flatten_to_schema_impl(map, todo, prefix, out) ==
    IF todo = {} THEN { OkSchema(out) }
    ELSE UNION {
        LET path == join_path(prefix, k)
            v == map[k]
            visited ==
                IF v.tag = "String"
                THEN IF from_name(v.s).some
                     THEN { OkSchema(insert(out, path, from_name(v.s).v)) }
                     ELSE { UnknownType(path, v.s) }
                ELSE flatten_to_schema_impl(v.m, DOMAIN v.m, path, out)
        IN  UNION { IF r.tag = "Ok"
                    THEN flatten_to_schema_impl(map, todo \ {k}, prefix, r.schema)
                    ELSE { r }
                  : r \in visited }
      : k \in todo }

flatten_to_schema(tree) == flatten_to_schema_impl(tree, DOMAIN tree, <<>>, SchemaNew)

parse_schema_str(text) ==
    LET p == parse_str(text) IN
    IF p.tag = "Err" THEN { SchemaParseErrorParse(p) }
    ELSE flatten_to_schema(p.root)

OkUnit == [tag |-> "Ok"]
UnknownKey(key) == [tag |-> "UnknownKey", key |-> key]
InvalidType(key, expected, value) ==
    [tag |-> "InvalidType", key |-> key, expected |-> expected, value |-> value]

RECURSIVE validate_impl(_, _, _, _)
validate_impl(config, todo, prefix, sch) ==
    IF todo = {} THEN { OkUnit }
    ELSE UNION {
        LET path == join_path(prefix, k)
            v == config[k]
            visited ==
                IF v.tag = "String"
                THEN IF path \notin DOMAIN sch THEN { UnknownKey(path) }
                     ELSE IF ~check_value(sch[path], v.s)
                          THEN { InvalidType(path, expected_name(sch[path]), v.s) }
                          ELSE { OkUnit }
                ELSE validate_impl(v.m, DOMAIN v.m, path, sch)
        IN  UNION { IF r.tag = "Ok"
                    THEN validate_impl(config, todo \ {k}, prefix, sch)
                    ELSE { r }
                  : r \in visited }
      : k \in todo }

validate(config, sch) == validate_impl(config, DOMAIN config, <<>>, sch)

(***************************************************************************)
(* Inputs.                                                                 *)
(***************************************************************************)
Texts(lines) == UNION { [1..n -> lines] : n \in 0..MaxLines }

Assign(k, v) == k \o <<" ", "=", " ">> \o v

TreeKeys ==
    { <<"a">>, <<"b">>, <<"a", ".", "a">>, <<"a", ".", "b">>,
      <<"a", ".", "b", ".", "a">>, <<"a", ".", "b", ".", "b">> }

TreeLines ==
    { Assign(k, v) : k \in TreeKeys, v \in { <<"x">>, <<"y">> } }
        \cup { <<";", "a", ".", "b", " ", "=", " ", "y">>, <<"-", "a", ".", "b", " ", "=", " ", "y">> }

LexLines ==
    { <<>>, <<" ">>, <<"#", "a", "=", "x">>, <<" ", ";">>,
      <<"-">>, <<"-", " ">>, <<"a">>, <<"-", "b">>, <<"=", "x">>, <<"-", " ", "=", "x">>,
      <<"a", "=", "x">>, <<"-", "a", "=", "y">>, <<"-", "-", "a", "=", "y">>,
      <<" ", "a", " ", ".", " ", "b", " ", "=", " ", "x", "=", "y", " ">>,
      <<"-", "#", "=", "x">>, <<"a", ".", "b", "=">>,
      <<"a", ".", ".", "b", "=", "x">> }

\* schema texts: colliding and nested keys, known and unknown type names
SchemaKeys == { <<"a">>, <<"b">>, <<"a", ".", "b">>, <<".", "a">> }
SchemaNames == { <<"i", "n", "t">>, <<"B", "o", "o", "l">>, <<"x">>, <<"y">> }
SchemaLines == { Assign(k, n) : k \in SchemaKeys, n \in SchemaNames } \cup { <<"a">> }
AllNames ==
    { S_string, S_bool, S_boolean, S_integer, S_int, S_float, S_number,
      <<"S", "t", "r", "i", "n", "g">>, <<" ", "B", "O", "O", "L", "E", "A", "N">>, <<"I", "n", "t", "e", "g", "e", "r", " ">>, <<"F", "L", "O", "A", "T">>, <<"N", "u", "m", "b", "e", "r">>, <<"s", "t", "r">>, <<"d", "o", "u", "b", "l", "e">>, <<>> }
SchemaTexts ==
    Texts(SchemaLines) \cup { <<(k \o <<"=">> \o n)>> : k \in SchemaKeys, n \in AllNames }

\* configs and schemas validated against each other
ConfigKeys == { <<"a">>, <<"b">>, <<"a", ".", "b">>, <<".", "a">> }
ConfigLines == { Assign(k, v) : k \in ConfigKeys, v \in { <<"1">>, <<"x">> } }
DeclLines == { <<"a", " ", "=", " ", "i", "n", "t">>, <<"a", ".", "b", " ", "=", " ", "s", "t", "r", "i", "n", "g">>, <<"b", " ", "=", " ", "b", "o", "o", "l">> }
DeclTexts == UNION { [1..n -> DeclLines] : n \in 0..2 }

\* raw values handed to check_value
MaxRawLen == 3
RawChars == { "0", "1", "-", "+", " ", ",", ".", "e" }
ShortRaws == UNION { [1..n -> RawChars] : n \in 0..MaxRawLen }
BigDigits ==
    { I64_MAX, I64_MIN_MAGNITUDE, <<"9", "2", "2", "3", "3", "7", "2", "0", "3", "6", "8", "5", "4", "7", "7", "5", "8", "0", "9">>, <<"0", "9", "2", "2", "3", "3", "7", "2", "0", "3", "6", "8", "5", "4", "7", "7", "5", "8", "0", "7">>,
      <<"1", "0", "0", "0", "0", "0", "0", "0", "0", "0", "0", "0", "0", "0", "0", "0", "0", "0", "0", "0">>, <<"8", "9", "9", "9", "9", "9", "9", "9", "9", "9", "9", "9", "9", "9", "9", "9", "9", "9", "9">> }
BigRaws == { pad \o sign \o d : pad \in { <<>>, <<" ">> }, sign \in { <<>>, <<"+">>, <<"-">> },
                                d \in BigDigits }
WordRaws ==
    { S_true, S_false, S_yes, S_no, <<"T", "R", "U", "E">>, <<"Y", "e", "s">>, <<" ", "n", "o", " ">>, <<"o", "n">>, <<"a", "b", "c">>, <<"1", "_", "0", "0", "0">>, <<"0", "x", "1", "f">>,
      S_inf, S_infinity, S_nan, <<"-", "I", "n", "f">>, <<"+", "N", "a", "N">>, <<"1", ".", "5", "E", "+", "3">>, <<"1", "e", "-", "1">>, <<".", "5", "e", "1">>, <<"1", " ", "0", "0", "0">> }
RawTexts == ShortRaws \cup BigRaws \cup WordRaws

Idle == [tag |-> "Idle"]

Init ==
    /\ input \in Texts(TreeLines) \cup Texts(LexLines)
    /\ parsed = Idle
    /\ schema_input = <<>>
    /\ schema = Idle
    /\ verdict = Idle
    /\ raw = <<>>
    /\ ty = "String"
    /\ checked = Idle

\* parse_str(input)
ParseStr ==
    /\ parsed = Idle
    /\ parsed' = parse_str(input)
    /\ UNCHANGED <<input, schema_input, schema, verdict, raw, ty, checked>>

Next == ParseStr

Spec == Init /\ [][Next]_vars

\* parse_schema_str(schema_input)
ParseSchemaStr ==
    /\ schema = Idle
    /\ schema' \in parse_schema_str(schema_input)
    /\ UNCHANGED <<input, parsed, schema_input, verdict, raw, ty, checked>>

\* validate(&config, &schema)
Validate ==
    /\ parsed # Idle /\ parsed.tag = "Ok"
    /\ schema # Idle /\ schema.tag = "Ok"
    /\ verdict = Idle
    /\ verdict' \in validate(parsed.root, schema.schema)
    /\ UNCHANGED <<input, parsed, schema_input, schema, raw, ty, checked>>

\* ty.check_value(raw)
CheckValue ==
    /\ checked = Idle
    /\ checked' = [tag |-> "Checked", ok |-> check_value(ty, raw)]
    /\ UNCHANGED <<input, parsed, schema_input, schema, verdict, raw, ty>>

InitSchema ==
    /\ input = <<>>
    /\ parsed = Idle
    /\ schema_input \in SchemaTexts
    /\ schema = Idle
    /\ verdict = Idle
    /\ raw = <<>>
    /\ ty = "String"
    /\ checked = Idle

NextSchema == ParseSchemaStr

SpecSchema == InitSchema /\ [][NextSchema]_vars

InitValidate ==
    /\ input \in Texts(ConfigLines)
    /\ parsed = Idle
    /\ schema_input \in DeclTexts
    /\ schema = Idle
    /\ verdict = Idle
    /\ raw = <<>>
    /\ ty = "String"
    /\ checked = Idle

NextValidate == ParseStr \/ ParseSchemaStr \/ Validate

SpecValidate == InitValidate /\ [][NextValidate]_vars

InitCheck ==
    /\ input = <<>>
    /\ parsed = Idle
    /\ schema_input = <<>>
    /\ schema = Idle
    /\ verdict = Idle
    /\ raw \in RawTexts
    /\ ty \in SchemaTypes
    /\ checked = Idle

NextCheck == CheckValue

SpecCheck == InitCheck /\ [][NextCheck]_vars

(***************************************************************************)
(* Vocabulary of the claims about the parser.                              *)
(***************************************************************************)
None == [found |-> FALSE]
Some(v) == [found |-> TRUE, v |-> v]

\* the value reached by walking a tree along the segments of a path
RECURSIVE Walk(_, _)
Walk(m, p) ==
    IF p[1] \notin DOMAIN m THEN None
    ELSE IF Len(p) = 1 THEN Some(m[p[1]])
    ELSE IF m[p[1]].tag = "Map" THEN Walk(m[p[1]].m, Tail(p))
    ELSE None

IsLeafAt(m, p) == Walk(m, p).found /\ Walk(m, p).v.tag = "String"
IsNodeAt(m, p) == Walk(m, p).found /\ Walk(m, p).v.tag = "Map"

\* the leaves of a tree, each as <<segments, string>>
RECURSIVE Leaves(_)
Leaves(m) ==
    UNION { IF m[k].tag = "String" THEN { <<(<<k>>), m[k].s>> }
            ELSE { <<(<<k>>) \o e[1], e[2]>> : e \in Leaves(m[k].m) }
          : k \in DOMAIN m }

\* every node below the root has a child
RECURSIVE NoEmptyNode(_)
NoEmptyNode(m) ==
    \A k \in DOMAIN m :
        m[k].tag = "Map" => (DOMAIN m[k].m # {} /\ NoEmptyNode(m[k].m))

IsPrefix(p, q) == Len(p) <= Len(q) /\ SubSeq(q, 1, Len(p)) = p
IsProperPrefix(p, q) == Len(p) < Len(q) /\ IsPrefix(p, q)
Comparable(p, q) == IsPrefix(p, q) \/ IsPrefix(q, p)

\* the node that holds only the chain of segments leading to one leaf
RECURSIVE Chain(_, _)
Chain(segs, v) ==
    IF Len(segs) = 1 THEN [k \in {segs[1]} |-> ValueString(v)]
    ELSE [k \in {segs[1]} |-> ValueMap(Chain(Tail(segs), v))]

\* how the grammar reads one physical line
IsBlank(l) == trim(l) = <<>>
IsCommentLine(l) == ~IsBlank(l) /\ trim(l)[1] \in {"#", ";"}
IsDashOnly(l) == trim(l) = <<"-">>
IsNeutral(l) == IsBlank(l) \/ IsCommentLine(l) \/ IsDashOnly(l)
\* the line without its one optional leading '-'
Body(l) == LET t == trim(l) IN IF t # <<>> /\ t[1] = "-" THEN trim(Tail(t)) ELSE t
HasEq(s) == \E i \in 1..Len(s) : s[i] = "="
FirstEq(s) == CHOOSE i \in 1..Len(s) : s[i] = "=" /\ \A j \in 1..(i - 1) : s[j] # "="
BeforeEq(s) == SubSeq(s, 1, FirstEq(s) - 1)
AfterEq(s) == SubSeq(s, FirstEq(s) + 1, Len(s))
IsAssignment(l) ==
    ~IsNeutral(l) /\ HasEq(Body(l)) /\ trim(BeforeEq(Body(l))) # <<>>
PathOf(l) == map_trim(split(trim(BeforeEq(Body(l))), "."))
ValueOf(l) == trim(AfterEq(l))

Done == parsed # Idle
Succeeded == parsed # Idle /\ parsed.tag = "Ok"
Last == input[Len(input)]
\* the outcome of parse_str on the text without its last line
Before == parse_str(SubSeq(input, 1, Len(input) - 1))

(***************************************************************************)
(* C1  Last-write-wins lookup: when parse_str succeeds, for every line i   *)
(* that assigns a path p and is followed by no line assigning p, a proper  *)
(* prefix of p or a proper extension of p, walking the tree along p        *)
(* reaches the leaf holding the trimmed text after the first '=' of line   *)
(* i; a text made only of assignments and neutral lines, repeated paths    *)
(* included, never raises an error.                                        *)
(***************************************************************************)
C1_LastWriteWins ==
    Done =>
        /\ (\A i \in 1..Len(input) : IsAssignment(input[i]) \/ IsNeutral(input[i]))
               => parsed.tag = "Ok"
        /\ parsed.tag = "Ok" =>
               \A i \in 1..Len(input) :
                   (/\ IsAssignment(input[i])
                    /\ \A j \in (i + 1)..Len(input) :
                          IsAssignment(input[j])
                              => ~Comparable(PathOf(input[j]), PathOf(input[i])))
                   => Walk(parsed.root, PathOf(input[i]))
                          = Some(ValueString(ValueOf(input[i])))

\* the same path assigned twice with different values, the parse done
C1_Witness ==
    /\ Succeeded
    /\ \E i \in 1..Len(input) : \E j \in (i + 1)..Len(input) :
          /\ IsAssignment(input[i]) /\ IsAssignment(input[j])
          /\ PathOf(input[i]) = PathOf(input[j])
          /\ ValueOf(input[i]) # ValueOf(input[j])
          /\ Walk(parsed.root, PathOf(input[j])) = Some(ValueString(ValueOf(input[j])))

LeafPrefixes(m, p) == { k \in 1..(Len(p) - 1) : IsLeafAt(m, SubSeq(p, 1, k)) }

C2_Case ==
    /\ Done /\ Len(input) >= 1 /\ Before.tag = "Ok"
    /\ IsAssignment(Last) /\ Len(PathOf(Last)) >= 2
    /\ LeafPrefixes(Before.root, PathOf(Last)) # {}

(***************************************************************************)
(* C2  Leaf then deeper path: when the last line assigns a path p of two   *)
(* or more segments and a proper prefix q of p holds a Leaf in the tree    *)
(* built from the lines before it, parse_str succeeds, the slot at q holds *)
(* a Node containing only the chain to the new leaf, the old leaf is gone, *)
(* and everything outside the slot at q is as it was.                      *)
(***************************************************************************)
C2_LeafThenDeeper ==
    C2_Case =>
        LET p == PathOf(Last)
            v == ValueOf(Last)
            pre == Before.root
            k == CHOOSE n \in LeafPrefixes(pre, p) : TRUE
            q == SubSeq(p, 1, k)
            old == Walk(pre, q).v.s
        IN  /\ parsed.tag = "Ok"
            /\ Walk(parsed.root, q) = Some(ValueMap(Chain(SubSeq(p, k + 1, Len(p)), v)))
            /\ Leaves(parsed.root) = (Leaves(pre) \ { <<q, old>> }) \cup { <<p, v>> }
            /\ \A e \in Leaves(pre) : \A n \in 1..Len(e[1]) :
                  LET r == SubSeq(e[1], 1, n) IN
                  ~Comparable(q, r) => Walk(parsed.root, r) = Walk(pre, r)

\* a leaf two levels down replaced by a node, with a sibling beside it
C2_Witness ==
    /\ C2_Case
    /\ 2 \in LeafPrefixes(Before.root, PathOf(Last))
    /\ Cardinality(Leaves(Before.root)) >= 2
    /\ IsNodeAt(parsed.root, SubSeq(PathOf(Last), 1, 2))

C10_Case ==
    /\ Done /\ Len(input) >= 1 /\ Before.tag = "Ok"
    /\ IsAssignment(Last) /\ IsNodeAt(Before.root, PathOf(Last))

(***************************************************************************)
(* C10  Deeper path then shallower leaf: when the last line assigns a path *)
(* p that holds a Node in the tree built from the lines before it,         *)
(* parse_str succeeds, p holds the new Leaf and every leaf that was under  *)
(* p is gone while the others stay.  After any text that parses, no leaf   *)
(* path is a proper prefix of another and every Node below the root has a  *)
(* child.                                                                  *)
(***************************************************************************)
C10_NodeReplacedByLeaf ==
    /\ C10_Case =>
          LET p == PathOf(Last)
              v == ValueOf(Last)
          IN  /\ parsed.tag = "Ok"
              /\ Walk(parsed.root, p) = Some(ValueString(v))
              /\ Leaves(parsed.root)
                    = { e \in Leaves(Before.root) : ~IsPrefix(p, e[1]) } \cup { <<p, v>> }
    /\ Succeeded =>
          /\ \A e \in Leaves(parsed.root) : \A f \in Leaves(parsed.root) :
                ~IsProperPrefix(e[1], f[1])
          /\ NoEmptyNode(parsed.root)

\* a node holding a leaf is overwritten by a leaf
C10_Witness ==
    /\ C10_Case
    /\ \E e \in Leaves(Before.root) : IsProperPrefix(PathOf(Last), e[1])
    /\ IsLeafAt(parsed.root, PathOf(Last))

MalformedAsClaimed(l) ==
    ~IsNeutral(l) /\ (~HasEq(l) \/ trim(BeforeEq(l)) = <<>>)

\* the same, read after the one optional leading '-' is stripped
Malformed(l) ==
    ~IsNeutral(l) /\ (~HasEq(Body(l)) \/ trim(BeforeEq(Body(l))) = <<>>)

MessageFor(l) == IF HasEq(l) THEN "empty key" ELSE "missing '='"

FirstOf(S) == CHOOSE i \in S : \A j \in S : i <= j

(***************************************************************************)
(* C5 as claimed: parse_str fails exactly when some line that is not      *)
(* blank, not a comment and not an empty '-' line contains no '=' or has   *)
(* only whitespace before its first '='; the error carries the 1-based     *)
(* number of the first such line, with "missing '='" when the line has no  *)
(* '=' and "empty key" otherwise.                                          *)
(***************************************************************************)
C5_AsClaimed ==
    Done =>
        LET bad == { i \in 1..Len(input) : MalformedAsClaimed(input[i]) } IN
        IF bad = {} THEN parsed.tag = "Ok"
        ELSE parsed = ParseError(FirstOf(bad), MessageFor(input[FirstOf(bad)]))

(***************************************************************************)
(* C5 amended: the same, where the line is read after its one optional     *)
(* leading '-' is stripped and the rest re-trimmed, so that '- = x' is a   *)
(* line with an empty key.                                                 *)
(***************************************************************************)
C5_FirstMalformedLine ==
    Done =>
        LET bad == { i \in 1..Len(input) : Malformed(input[i]) } IN
        IF bad = {} THEN parsed.tag = "Ok"
        ELSE parsed = ParseError(FirstOf(bad), MessageFor(input[FirstOf(bad)]))

\* after a skipped line, a '-' line with an empty key, then a line without '='
C5_Witness ==
    /\ Done /\ Len(input) = 3
    /\ IsNeutral(input[1]) /\ Malformed(input[2]) /\ Malformed(input[3])
    /\ ~MalformedAsClaimed(input[2])
    /\ ~HasEq(input[3])
    /\ parsed = ParseError(2, "empty key")

IsBlankOrComment(l) == IsBlank(l) \/ IsCommentLine(l)
KeepsLine(l) == ~IsBlankOrComment(l)
Stripped == SelectSeq(input, KeepsLine)

(***************************************************************************)
(* C7  Blank lines and comment lines are neutral: a text and the text      *)
(* without its blank and comment lines give the same tree, or both fail.   *)
(***************************************************************************)
C7_CommentsNeutral ==
    Done =>
        LET other == parse_str(Stripped) IN
        /\ parsed.tag = other.tag
        /\ parsed.tag = "Ok" => parsed.root = other.root

\* a comment that reads like an assignment, between lines that build a tree
C7_Witness ==
    /\ Succeeded /\ Len(input) = 3
    /\ IsCommentLine(input[2]) /\ HasEq(input[2])
    /\ IsAssignment(input[1]) /\ IsAssignment(input[3])
    /\ Cardinality(Leaves(parsed.root)) >= 1

Plain(L) == trim(L) = <<>> \/ trim(L)[1] \notin {"-", "#", ";"}

C8_Case(i) ==
    /\ Len(input[i]) >= 1 /\ input[i][1] = "-"
    /\ Plain(Tail(input[i]))
    /\ IsAssignment(Tail(input[i]))

(***************************************************************************)
(* C8  Ignore-failure prefix: a line that is '-' followed by L, where the  *)
(* trimmed L does not begin with '-', '#' or ';', gives the same result    *)
(* (tree or error) as L in its place; a line that is only '-' and          *)
(* whitespace gives the same result as an empty line; of two leading '-'   *)
(* only the first is stripped, the second stays in the key.                *)
(***************************************************************************)
C8_DashPrefix ==
    Done =>
        /\ \A i \in 1..Len(input) :
              C8_Case(i) => parsed = parse_str([input EXCEPT ![i] = Tail(input[i])])
        /\ \A i \in 1..Len(input) :
              IsDashOnly(input[i]) => parsed = parse_str([input EXCEPT ![i] = <<>>])
        /\ \A i \in 1..Len(input) :
              LET t == trim(input[i]) IN
              (/\ Len(t) >= 2 /\ t[1] = "-" /\ t[2] = "-"
               /\ IsAssignment(input[i])
               /\ \A j \in (i + 1)..Len(input) : ~IsAssignment(input[j])
               /\ parsed.tag = "Ok")
              => /\ PathOf(input[i])[1][1] = "-"
                 /\ Walk(parsed.root, PathOf(input[i]))
                       = Some(ValueString(ValueOf(input[i])))

\* a prefixed assignment that ended up in the tree
C8_Witness ==
    /\ Succeeded
    /\ \E i \in 1..Len(input) :
          /\ C8_Case(i)
          /\ Walk(parsed.root, PathOf(input[i])) = Some(ValueString(ValueOf(input[i])))

(***************************************************************************)
(* Vocabulary of the claims about schemas, validation and check_value.     *)
(***************************************************************************)
\* the dotted path of a leaf: its segments joined with '.'
RECURSIVE JoinDots(_)
JoinDots(segs) ==
    IF Len(segs) = 1 THEN segs[1] ELSE segs[1] \o <<".">> \o JoinDots(Tail(segs))

\* the type a type name stands for, "None" when it is not recognised
NamedType(name) ==
    LET n == to_lowercase(trim(name)) IN
    IF n = S_string THEN "String"
    ELSE IF n = S_bool \/ n = S_boolean THEN "Bool"
    ELSE IF n = S_integer \/ n = S_int THEN "Integer"
    ELSE IF n = S_float \/ n = S_number THEN "Float"
    ELSE "None"

(***************************************************************************)
(* C6  parse_schema_str succeeds exactly when parse_str succeeds on the    *)
(* schema text and every leaf of the tree holds a recognised type name.    *)
(* On success the Schema has exactly one entry per leaf, keyed by the      *)
(* leaf's segments joined with '.', mapped to the named type.  When the    *)
(* tree has a leaf with an unrecognised name the result is UnknownType     *)
(* with the dotted path and the raw string of such a leaf.                 *)
(***************************************************************************)
C6_SchemaPerLeaf ==
    schema # Idle =>
        LET p == parse_str(schema_input) IN
        IF p.tag = "Err" THEN schema.tag # "Ok"
        ELSE
            LET leaves == Leaves(p.root)
                unknown == { e \in leaves : NamedType(e[2]) = "None" }
            IN  IF unknown = {}
                THEN /\ schema.tag = "Ok"
                     /\ DOMAIN schema.schema = { JoinDots(e[1]) : e \in leaves }
                     /\ Cardinality(DOMAIN schema.schema) = Cardinality(leaves)
                     /\ \A e \in leaves : schema.schema[JoinDots(e[1])] = NamedType(e[2])
                ELSE /\ schema.tag = "UnknownType"
                     /\ \E e \in unknown :
                           schema.key = JoinDots(e[1]) /\ schema.type_name = e[2]

Violates(e, sch) ==
    JoinDots(e[1]) \notin DOMAIN sch \/ ~check_value(sch[JoinDots(e[1])], e[2])

(***************************************************************************)
(* C3  validate returns Ok exactly when every leaf of the config, at       *)
(* dotted path p with raw value v, has p in the schema and                 *)
(* check_value(schema[p], v) true.  UnknownKey{key} names a leaf path      *)
(* absent from the schema; InvalidType{key, expected, value} names a leaf  *)
(* whose path is in the schema, with the type's lower-case name and the    *)
(* leaf's raw string.                                                      *)
(***************************************************************************)
C3_ValidateExact ==
    verdict # Idle =>
        LET leaves == Leaves(parsed.root)
            sch == schema.schema
        IN  /\ verdict.tag = "Ok" <=> \A e \in leaves : ~Violates(e, sch)
            /\ verdict.tag = "UnknownKey" =>
                  \E e \in leaves :
                      JoinDots(e[1]) = verdict.key /\ verdict.key \notin DOMAIN sch
            /\ verdict.tag = "InvalidType" =>
                  \E e \in leaves :
                      /\ JoinDots(e[1]) = verdict.key
                      /\ verdict.key \in DOMAIN sch
                      /\ verdict.expected = expected_name(sch[verdict.key])
                      /\ verdict.value = e[2]
                      /\ ~check_value(sch[verdict.key], e[2])

Without(i) == SubSeq(input, 1, i - 1) \o SubSeq(input, i + 1, Len(input))

C4_Case(i) ==
    /\ verdict # Idle
    /\ IsAssignment(input[i])
    /\ JoinDots(PathOf(input[i])) \notin DOMAIN schema.schema
    /\ \A j \in (i + 1)..Len(input) :
          IsAssignment(input[j]) => ~Comparable(PathOf(input[j]), PathOf(input[i]))
    /\ parse_str(Without(i)).tag = "Ok"
    /\ validate(parse_str(Without(i)).root, schema.schema) = { OkUnit }

(***************************************************************************)
(* C4  When the text without line i parses and validates, and line i is    *)
(* an assignment of a path the schema does not declare, validate on the    *)
(* whole text returns UnknownKey with exactly that path.  Stated for the   *)
(* lines i that no later line overwrites, so that the extra key is in the  *)
(* tree validate sees.                                                     *)
(***************************************************************************)
C4_ExtraUndeclaredKey ==
    \A i \in 1..Len(input) :
        C4_Case(i) => verdict = UnknownKey(JoinDots(PathOf(input[i])))

RECURSIVE DecValue(_)
DecValue(d) == IF d = <<>> THEN 0 ELSE 10 * DecValue(SubSeq(d, 1, Len(d) - 1)) + digit_value(d[Len(d)])

RECURSIVE Significant(_)
Significant(d) == IF d # <<>> /\ d[1] = "0" THEN Significant(Tail(d)) ELSE d

\* a number of at most 21 digits as three 7-digit limbs, high limb first
Limbs(d) ==
    LET padded == [i \in 1..(21 - Len(d)) |-> "0"] \o d IN
    <<DecValue(SubSeq(padded, 1, 7)), DecValue(SubSeq(padded, 8, 14)),
      DecValue(SubSeq(padded, 15, 21))>>

LimbsLE(x, y) ==
    \/ x[1] < y[1]
    \/ x[1] = y[1] /\ x[2] < y[2]
    \/ x[1] = y[1] /\ x[2] = y[2] /\ x[3] <= y[3]

\* 2^63 - 1 = 92233 7203685 4775807
InI64Range(negative, d) ==
    LET z == Significant(d) IN
    /\ Len(z) <= 21
    /\ LimbsLE(Limbs(z), IF negative THEN <<92233, 7203685, 4775808>>
                                     ELSE <<92233, 7203685, 4775807>>)

IntegerText(t, signs) ==
    LET d == IF t # <<>> /\ t[1] \in signs THEN Tail(t) ELSE t IN
    /\ Len(d) >= 1
    /\ \A i \in 1..Len(d) : is_digit(d[i])
    /\ InI64Range(t[1] = "-", d)

(***************************************************************************)
(* C9 as claimed: check_value for Integer accepts a raw string exactly     *)
(* when its trimmed text is an optional '-' followed by one or more        *)
(* decimal digits whose value lies in [-2^63, 2^63 - 1]; a leading '+' is  *)
(* rejected.                                                               *)
(***************************************************************************)
C9_AsClaimed ==
    (checked # Idle /\ ty = "Integer") => (checked.ok <=> IntegerText(trim(raw), { "-" }))

(***************************************************************************)
(* C9 amended: the sign is an optional '+' or '-'; every other text is     *)
(* rejected: an empty text, a sign alone, a separator or other non-digit,  *)
(* a magnitude outside [-2^63, 2^63 - 1].                                  *)
(***************************************************************************)
C9_IntegerTexts ==
    (checked # Idle /\ ty = "Integer") => (checked.ok <=> IntegerText(trim(raw), { "+", "-" }))

\* the largest i64 written with a '+', padded with a space, is accepted
C9_Witness ==
    /\ checked # Idle /\ ty = "Integer" /\ checked.ok
    /\ raw # trim(raw)
    /\ trim(raw) = <<"+">> \o I64_MAX

====
